---- MODULE Spec2Model ----
(***************************************************************************)
(* kikuchipy: KikuchiPatternSimulator (kinematical master pattern,         *)
(* projection of Kikuchi lines and zone axes onto a detector, plotting).   *)
(*                                                                         *)
(* Numbers.  All geometry is exact integer arithmetic:                     *)
(*   - a structure factor is a Gaussian integer <<re, im>> whose modulus   *)
(*     is an integer, so abs() is exact;                                   *)
(*   - a Bragg angle theta in [0, pi/2] is held by its sine, the rational  *)
(*     <<num, den>>; arccos is decreasing, so the code's comparisons of    *)
(*     angles are comparisons of cosines, written without division;        *)
(*   - an angle of the detector geometry is held as <<cos, sin, den>>      *)
(*     (cos^2 + sin^2 = den^2);                                            *)
(*   - a rotation matrix is held multiplied by its (positive) denominator; *)
(*     signs of coordinates, which is all the visibility tests read, are   *)
(*     those of the real matrix;                                           *)
(*   - a master pattern intensity is held in half units (twice its value), *)
(*     because an exact zone-line pixel receives 0.5 * intensity.          *)
(* An optional value (Python None or a value) is <<>> or <<value>>.        *)
(***************************************************************************)
EXTENDS Integers, Sequences, FiniteSets, TLC

VARIABLES
    reflectors,   \* KikuchiPatternSimulator._reflectors: sequence of reflectors
    phase,        \* reflectors.phase: the lattice (direct and reciprocal base)
    ret,          \* outcome of the call in progress / last finished call
    file,         \* the HDF5 file of the h5ebsd plugin: content, open or closed
    reader        \* the H5EBSDReader object: its attributes once constructed

vars == <<reflectors, phase, ret, file, reader>>

\* ------------------------------------------------------------------ bounds

MaxReflectors == 3     \* longest reflector set drawn
MaxHalfSize == 2       \* largest half_size drawn
GridSide == 5          \* side of the square grid of orientations

\* --------------------------------------------------------- program constants

ZoneTolInv == 10000000 \* 1 / 1e-7, the exact zone-line threshold

\* ----------------------------------------------------------------- helpers

None == <<>>
Some(v) == <<v>>
IsNone(o) == o = <<>>
Val(o) == o[1]

Abs(x) == IF x < 0 THEN -x ELSE x

RECURSIVE ISqrt(_)
\* floor of the square root
ISqrt(n) ==
    IF n < 2 THEN n
    ELSE LET s == 2 * ISqrt(n \div 4)
         IN  IF (s + 1) * (s + 1) <= n THEN s + 1 ELSE s

RECURSIVE Gcd(_, _)
\* greatest common divisor of |a| and |b|
Gcd(a, b) == IF b = 0 THEN Abs(a) ELSE Gcd(Abs(b), Abs(a) % Abs(b))

Dot3(u, v) == u[1] * v[1] + u[2] * v[2] + u[3] * v[3]

Cross3(u, v) ==
    << u[2] * v[3] - u[3] * v[2],
       u[3] * v[1] - u[1] * v[3],
       u[1] * v[2] - u[2] * v[1] >>

Column(M, j) == << M[1][j], M[2][j], M[3][j] >>

Transpose(M) == << Column(M, 1), Column(M, 2), Column(M, 3) >>

\* row vector times matrix
VecMat(v, M) == << Dot3(v, Column(M, 1)), Dot3(v, Column(M, 2)), Dot3(v, Column(M, 3)) >>

\* MatMul with the factors in the other order
MatMulReversed(A, B) == << VecMat(B[1], A), VecMat(B[2], A), VecMat(B[3], A) >>

MatMul(A, B) == << VecMat(A[1], B), VecMat(A[2], B), VecMat(A[3], B) >>

Identity3 == << <<1, 0, 0>>, <<0, 1, 0>>, <<0, 0, 1>> >>

RECURSIVE SeqSum(_)
SeqSum(s) == IF s = <<>> THEN 0 ELSE Head(s) + SeqSum(Tail(s))

RECURSIVE SetToSeq(_)
\* the elements of a finite set of integers in increasing order
SetToSeq(S) ==
    IF S = {} THEN <<>>
    ELSE LET m == CHOOSE x \in S : \A y \in S : x <= y
         IN  <<m>> \o SetToSeq(S \ {m})

\* ------------------------------------------------------------------ inputs

\* Lattices, as diffpy's Lattice gives them: base has the direct basis
\* vectors a, b, c as rows; recbase is its inverse, so recbase.T has the
\* reciprocal basis vectors a*, b*, c* as rows.
CubicLattice ==
    [ base |-> Identity3, recbase |-> Identity3 ]

ShearedLattice ==
    [ base    |-> << <<1, 0, 0>>, <<0, 1, 0>>, <<1, 0, 1>> >>,
      recbase |-> << <<1, 0, 0>>, <<0, 1, 0>>, <<-1, 0, 1>> >> ]

Phases == { CubicLattice, ShearedLattice }

\* Reflectors with structure factor and Bragg angle calculated.
ReflectorPool ==
    << [ hkl |-> <<1, 0, 0>>, structure_factor |-> Some(<<3, 4>>),  theta |-> Some(<<1, 2>>) ],
       [ hkl |-> <<0, 1, 0>>, structure_factor |-> Some(<<1, 0>>),  theta |-> Some(<<4, 5>>) ],
       [ hkl |-> <<0, 0, 1>>, structure_factor |-> Some(<<0, -2>>), theta |-> Some(<<3, 5>>) ],
       [ hkl |-> <<-1, 1, 0>>, structure_factor |-> Some(<<-4, 3>>), theta |-> Some(<<1, 5>>) ],
       [ hkl |-> <<2, 0, 0>>, structure_factor |-> Some(<<0, 1>>),  theta |-> Some(<<12, 13>>) ] >>

\* Every selection of 1..MaxReflectors reflectors of the pool, in pool order.
CalculatedReflectorSets ==
    { [ i \in 1..Len(ix) |-> ReflectorPool[ix[i]] ] :
        ix \in { SetToSeq(S) : S \in { T \in SUBSET (1..Len(ReflectorPool)) :
                                        T # {} /\ Cardinality(T) <= MaxReflectors } } }

\* refs with one attribute not calculated: on every reflector (pos = 0) or
\* on the reflector at position pos only.
Without(refs, attr, pos) ==
    [ i \in 1..Len(refs) |->
        IF pos = 0 \/ pos = i
        THEN IF attr = "theta"
             THEN [ refs[i] EXCEPT !.theta = None ]
             ELSE [ refs[i] EXCEPT !.structure_factor = None ]
        ELSE refs[i] ]

ReflectorSets ==
    CalculatedReflectorSets
    \cup { Without(refs, attr, pos) :
             refs \in CalculatedReflectorSets,
             attr \in {"theta", "structure_factor"},
             pos \in 0..MaxReflectors }

\* Cartesian reciprocal lattice vector of a reflector: hkl . recbase.T
Cartesian(ref, lattice) == VecMat(ref.hkl, Transpose(lattice.recbase))

\* ------------------------------------------- calculate_master_pattern parts

PyNone == "<None>"                      \* the Python object None as an argument

Hemispheres == {"north", "south", "both", "upper"}
Scalings == {"linear", "square", PyNone, "None", "cubic"}

ComplexMul(a, b) == << a[1] * b[1] - a[2] * b[2], a[1] * b[2] + a[2] * b[1] >>
Conjugate(a) == << a[1], -a[2] >>
ComplexAbs(a) == ISqrt(a[1] * a[1] + a[2] * a[2])

AnyNone(refs, attr) ==
    \E i \in 1..Len(refs) :
        IsNone(IF attr = "theta" THEN refs[i].theta ELSE refs[i].structure_factor)

\* _raise_if_no_theta / _raise_if_no_structure_factor: only element [0] is read
NoTheta(refs) == IsNone(refs[1].theta)
NoStructureFactor(refs) == IsNone(refs[1].structure_factor)

\* Poles with the two hemispheres of "both" in the other order
PolesSouthFirst(hemisphere) ==
    CASE hemisphere = "both"  -> <<1, -1>>
      [] hemisphere = "north" -> <<-1>>
      [] hemisphere = "south" -> <<1>>
      [] OTHER                -> <<>>

\* poles of the inverse stereographic projection, one per hemisphere computed
Poles(hemisphere) ==
    CASE hemisphere = "both"  -> <<-1, 1>>
      [] hemisphere = "north" -> <<-1>>
      [] hemisphere = "south" -> <<1>>
      [] OTHER                -> <<>>

HemisphereKnown(hemisphere) == hemisphere \in {"both", "north", "south"}

\* the branches of the scaling if/elif chain that do not raise ValueError
ScalingKnown(scaling) == scaling = "linear" \/ scaling = "square" \/ scaling = PyNone

\* abs() / conjugate() of an object array holding None raises
ScalingTypeError(scaling, refs) ==
    scaling \in {"linear", "square"} /\ AnyNone(refs, "structure_factor")

\* Intensity with the "square" branch a copy of the "linear" one
IntensitySquareAsLinear(scaling, refs) ==
    [ k \in 1..Len(refs) |->
        CASE scaling = "linear" -> ComplexAbs(Val(refs[k].structure_factor))
          [] scaling = "square" -> ComplexAbs(Val(refs[k].structure_factor))
          [] OTHER -> 1 ]

\* intensity of every reflector (defined when the scaling branch does not raise)
Intensity(scaling, refs) ==
    [ k \in 1..Len(refs) |->
        CASE scaling = "linear" -> ComplexAbs(Val(refs[k].structure_factor))
          [] scaling = "square" ->
                LET factor == Val(refs[k].structure_factor)
                IN  ComplexAbs(ComplexMul(factor, Conjugate(factor)))
          [] OTHER -> 1 ]

\* np.linspace(-1, 1, size)[i], i = 1..size, as <<numerator, denominator>>
Linspace(size, i) == << 2 * (i - 1) - (size - 1), size - 1 >>

\* np.meshgrid(arr, arr) then ravel(): flat pixel p = 1..size*size
GridX(size, p) == Linspace(size, ((p - 1) % size) + 1)
GridY(size, p) == Linspace(size, ((p - 1) \div size) + 1)

\* InverseStereographicProjection(pole).xy2vector(x, y): the unit vector
\* (2x, 2y, -pole (1 - x^2 - y^2)) / (1 + x^2 + y^2), numerators over den
XY2Vector(pole, x, y) ==
    LET d == x[2]
    IN  [ num |-> << 2 * x[1] * d, 2 * y[1] * d,
                     (-pole) * (d * d - x[1] * x[1] - y[1] * y[1]) >>,
          den |-> d * d + x[1] * x[1] + y[1] * y[1] ]

\* dp[p, k]: dot product of pixel vector v with the unit vector of g;
\* its value is n / (d * sqrt(g2))
DotProduct(v, g) == [ n |-> Dot3(v.num, g), d |-> v.den, g2 |-> Dot3(g, g) ]

\* mask1: |dp| <= 1e-7, i.e. |n| * ZoneTolInv <= d * sqrt(g2)
Mask1(dp) == Abs(dp.n) <= ISqrt(dp.d * dp.d * dp.g2) \div ZoneTolInv

\* angles >= theta1, theta1 = pi/2 - theta:  dp <= sin(theta)
AngleGeTheta1(dp, theta) ==
    \/ dp.n <= 0
    \/ (dp.n * theta[2]) * (dp.n * theta[2])
         <= theta[1] * theta[1] * dp.d * dp.d * dp.g2

\* angles <= theta2, theta2 = pi/2:  dp >= 0
AngleLeTheta2(dp) == dp.n >= 0

\* Mask2 that does not exclude the exact zone-line pairs
Mask2WithZoneLine(dp, theta) == AngleGeTheta1(dp, theta) /\ AngleLeTheta2(dp)

Mask2(dp, theta) == (AngleGeTheta1(dp, theta) /\ AngleLeTheta2(dp)) /\ ~Mask1(dp)

\* _get_pattern on one block: intensity[k]; mask1, mask2 [row][k].
\* part = 0.5 * sum(where=mask1) + sum(where=mask2), in half units
_get_pattern(intensity, mask1, mask2) ==
    [ i \in 1..Len(mask1) |->
        SeqSum([ k \in 1..Len(intensity) |-> IF mask1[i][k] THEN intensity[k] ELSE 0 ])
        + 2 * SeqSum([ k \in 1..Len(intensity) |-> IF mask2[i][k] THEN intensity[k] ELSE 0 ]) ]

\* RowChunks without the last, incomplete block
RowChunksWholeOnly(n, c) ==
    [ b \in 1..(n \div c) |-> << (b - 1) * c + 1, b * c >> ]

\* chunks=(half_size, -1) on n rows: the row blocks <<first, last>>
RowChunks(n, c) ==
    [ b \in 1..((n + c - 1) \div c) |->
        << (b - 1) * c + 1, IF b * c < n THEN b * c ELSE n >> ]

\* da.map_blocks(_get_pattern, ...) for one pole: one part per row block
PatternBlocks(refs, lattice, half_size, size, pole, intensity) ==
    LET g(k) == Cartesian(refs[k], lattice)
        dp(p, k) == DotProduct(XY2Vector(pole, GridX(size, p), GridY(size, p)), g(k))
        chunks == RowChunks(size * size, half_size)
    IN  [ b \in 1..Len(chunks) |->
            LET first == chunks[b][1]
                last == chunks[b][2]
                rows == [ i \in 1..(last - first + 1) |->
                            [ k \in 1..Len(refs) |-> dp(first + i - 1, k) ] ]
            IN  [ first |-> first,
                  last |-> last,
                  part |-> _get_pattern(
                      intensity,
                      [ i \in 1..Len(rows) |-> [ k \in 1..Len(refs) |-> Mask1(rows[i][k]) ] ],
                      [ i \in 1..Len(rows) |->
                          [ k \in 1..Len(refs) |-> Mask2(rows[i][k], Val(refs[k].theta)) ] ]) ] ]

\* da.store of the blocks of one pattern into a row of n zeros
Store(blocks, n) ==
    [ p \in 1..n |->
        IF \E b \in 1..Len(blocks) : blocks[b].first <= p /\ p <= blocks[b].last
        THEN LET b == CHOOSE c \in 1..Len(blocks) :
                          blocks[c].first <= p /\ p <= blocks[c].last
             IN  blocks[b].part[p - blocks[b].first + 1]
        ELSE 0 ]

\* how many blocks wrote flat element p
Writes(blocks, n) ==
    [ p \in 1..n |->
        Cardinality({ b \in 1..Len(blocks) : blocks[b].first <= p /\ p <= blocks[b].last }) ]

\* flat.reshape((size, size))
Reshape(flat, size) ==
    [ r \in 1..size |-> [ c \in 1..size |-> flat[(r - 1) * size + c] ] ]

\* ------------------------------------------------- calculate_master_pattern

NoCall == [ op |-> "none" ]

\* da.store(master_pattern_da, master_pattern) and the reshape: sources[i]
\* goes to row i of the (2, size*size) target when both hemispheres are
\* computed, the one source to the (size*size,) target otherwise.
Materialize(sources, hemisphere, size) ==
    IF hemisphere = "both"
    THEN [ i \in 1..2 |-> Reshape(Store(sources[i], size * size), size) ]
    ELSE Reshape(Store(sources[1], size * size), size)

\* Raise that hands back the target buffer after the store was started
RaiseAfterStore(call, class, what) ==
    call @@ [ status |-> class, error |-> what, stored |-> TRUE,
              value |-> Some(<<>>), shape_out |-> None, writes |-> None,
              intensity |-> None ]

\* A raise statement of the call: the exception leaves the method, nothing
\* is stored and nothing is returned.
Raise(call, class, what) ==
    call @@ [ status |-> class, error |-> what, stored |-> FALSE,
              value |-> None, shape_out |-> None, writes |-> None,
              intensity |-> None ]

\* The whole call: the outcome record. status is "ok" or the exception
\* class; stored says whether da.store ran; value is the array returned.
calculate_master_pattern(refs, lattice, half_size, hemisphere, scaling) ==
    LET call == [ op |-> "calculate_master_pattern", half_size |-> half_size,
                  hemisphere |-> hemisphere, scaling |-> scaling ]
        size == 2 * half_size + 1
    IN  IF NoTheta(refs)
        THEN Raise(call, "ValueError", "Reflectors have no Bragg angles")
        ELSE IF NoStructureFactor(refs)
        THEN Raise(call, "ValueError", "Reflectors have no structure factors")
        ELSE IF ~HemisphereKnown(hemisphere)
        THEN Raise(call, "ValueError", "Unknown hemisphere")
        ELSE IF ScalingTypeError(scaling, refs)
        THEN Raise(call, "TypeError", "structure_factor")
        ELSE IF ~ScalingKnown(scaling)
        THEN Raise(call, "ValueError", "Unknown scaling")
        ELSE IF AnyNone(refs, "theta")
        THEN Raise(call, "TypeError", "theta")
        ELSE
        LET poles == Poles(hemisphere)
            intensity == Intensity(scaling, refs)
            master_pattern_da ==
                [ i \in 1..Len(poles) |->
                    PatternBlocks(refs, lattice, half_size, size, poles[i], intensity) ]
        IN  call @@
            [ status |-> "ok", error |-> "", stored |-> TRUE,
              value |-> Some(Materialize(master_pattern_da, hemisphere, size)),
              shape_out |-> Some(IF hemisphere = "both" THEN <<2, size, size>>
                                 ELSE <<size, size>>),
              writes |-> Some([ i \in 1..Len(poles) |->
                                  Writes(master_pattern_da[i], size * size) ]),
              intensity |-> Some(intensity) ]

HalfSizes == 1..MaxHalfSize

CalculateMasterPattern(half_size, hemisphere, scaling) ==
    /\ ret.op = "none"
    /\ ret' = calculate_master_pattern(reflectors, phase, half_size, hemisphere, scaling)
    /\ UNCHANGED <<reflectors, phase, file, reader>>

\* the call is over and its outcome handed to the caller
Return ==
    /\ ret.op # "none"
    /\ ret' = NoCall
    /\ UNCHANGED <<reflectors, phase, file, reader>>

InitMaster ==
    /\ reflectors \in ReflectorSets
    /\ phase \in Phases
    /\ ret = NoCall
    /\ file = None
    /\ reader = None

NextMaster ==
    \/ \E half_size \in HalfSizes, hemisphere \in Hemispheres, scaling \in Scalings :
          CalculateMasterPattern(half_size, hemisphere, scaling)
    \/ Return

SpecMaster == InitMaster /\ [][NextMaster]_vars

\* -------------------------------------------------------- on_detector parts

\* angles <<cos, sin, den>>
Deg0 == <<1, 0, 1>>
Deg90 == <<0, 1, 1>>
MinusHalfPi == <<0, -1, 1>>
Deg36 == <<4, 3, 5>>        \* atan(3/4), about 36.87 degrees
Deg53 == <<3, 4, 5>>        \* atan(4/3), about 53.13 degrees

\* a - b
AngleSub(a, b) ==
    << a[1] * b[1] + a[2] * b[2], a[2] * b[1] - a[1] * b[2], a[3] * b[3] >>

\* EBSDDetector: sample tilt, detector tilt, largest gnomonic radius per pattern
Detectors ==
    { [ sample_tilt |-> st, tilt |-> t, r_max |-> <<2>> ] :
        st \in {Deg90, Deg53, Deg0}, t \in {Deg0, Deg36} }

\* Rotation.from_axes_angles(axis, angle).to_matrix() for a unit axis: the
\* matrix cos I + sin [n]x + (1 - cos) n n^T, times the angle's denominator
AxisAngleMatrix(n, angle) ==
    LET c == angle[1]
        s == angle[2]
        d == angle[3]
        nx == << <<0, -n[3], n[2]>>, <<n[3], 0, -n[1]>>, <<-n[2], n[1], 0>> >>
    IN  [ i \in 1..3 |-> [ j \in 1..3 |->
            (IF i = j THEN c ELSE 0) + s * nx[i][j] + (d - c) * n[i] * n[j] ] ]

\* Rotation matrices of crystal orientations (rotations.to_matrix())
RotX90 == << <<1, 0, 0>>, <<0, 0, -1>>, <<0, 1, 0>> >>
RotXm90 == << <<1, 0, 0>>, <<0, 0, 1>>, <<0, -1, 0>> >>
RotY90 == << <<0, 0, 1>>, <<0, 1, 0>>, <<-1, 0, 0>> >>
RotX180 == << <<1, 0, 0>>, <<0, -1, 0>>, <<0, 0, -1>> >>
\* 180 degrees about [111], times 3: 2 n n^T - I with n = (1, 1, 1) / sqrt(3)
Rot111By180 == << <<-1, 2, 2>>, <<2, -1, 2>>, <<2, 2, -1>> >>

OrientationPool == { Identity3, RotX90, RotXm90, RotY90, RotX180, Rot111By180 }

\* index tuples of a navigation shape of one or two dimensions
NavIndices(shape) ==
    IF Len(shape) = 1
    THEN { <<i>> : i \in 1..shape[1] }
    ELSE { <<i, j>> : i \in 1..shape[1], j \in 1..shape[2] }

\* orientation batches: rotations.ndim = Len(shape), rotations.to_matrix()
\* = matrix, one 3x3 matrix per navigation index
SingleRotation(o) == [ shape |-> <<1>>, matrix |-> [ ix \in NavIndices(<<1>>) |-> o ] ]

GridRotation(o) ==
    [ shape |-> <<GridSide, GridSide>>,
      matrix |-> [ ix \in NavIndices(<<GridSide, GridSide>>) |-> o ] ]

PairRotation(o1, o2) ==
    [ shape |-> <<2>>,
      matrix |-> [ ix \in NavIndices(<<2>>) |-> IF ix[1] = 1 THEN o1 ELSE o2 ] ]

RotationBatches ==
    { SingleRotation(o) : o \in OrientationPool }
    \cup { GridRotation(o) : o \in OrientationPool }
    \cup { PairRotation(o1, o2) : o1 \in OrientationPool, o2 \in OrientationPool }

\* seq[mask]: the elements of seq where the boolean mask is True, in order
RECURSIVE BoolIndex(_, _)
BoolIndex(seq, mask) ==
    IF seq = <<>> THEN <<>>
    ELSE (IF Head(mask) THEN <<Head(seq)>> ELSE <<>>) \o BoolIndex(Tail(seq), Tail(mask))

\* _get_coordinates_in_upper_hemisphere with in_a_pattern True where the
\* item is in the upper hemisphere in exactly one pattern
UpperHemisphereInOnePattern(z_coordinates, navigation_axes, n_items) ==
    LET upper_hemisphere ==
            [ ix \in DOMAIN z_coordinates |->
                [ n \in 1..n_items |-> z_coordinates[ix][n] > 0 ] ]
    IN  [ upper_hemisphere |-> upper_hemisphere,
          in_a_pattern |->
            [ k \in { <<>> } |->
                [ n \in 1..n_items |->
                    Cardinality({ ix \in DOMAIN z_coordinates : upper_hemisphere[ix][n] }) = 1 ] ] ]

\* _get_coordinates_in_upper_hemisphere with the horizon counted as upper
UpperHemisphereWithHorizon(z_coordinates, navigation_axes, n_items) ==
    LET upper_hemisphere ==
            [ ix \in DOMAIN z_coordinates |->
                [ n \in 1..n_items |-> z_coordinates[ix][n] >= 0 ] ]
    IN  [ upper_hemisphere |-> upper_hemisphere,
          in_a_pattern |->
            [ k \in { <<>> } |->
                [ n \in 1..n_items |->
                    Cardinality({ ix \in DOMAIN z_coordinates : upper_hemisphere[ix][n] }) # 0 ] ] ]

\* the components of the index tuple ix on the axes that are not summed
KeptAxes(ix, navigation_axes) ==
    LET kept == SetToSeq({ p \in 1..Len(ix) :
                             \A a \in 1..Len(navigation_axes) : navigation_axes[a] # p - 1 })
    IN  [ j \in 1..Len(kept) |-> ix[kept[j]] ]

\* _get_coordinates_in_upper_hemisphere(z_coordinates, navigation_axes):
\* z_coordinates[ix][n] for the index tuple ix of the leading axes (the empty
\* tuple when z_coordinates is 1-D) and item n of the last axis.  atleast_2d
\* gives a 1-D array one leading axis of length 1; the sum runs over
\* navigation_axes and leaves the other leading axes: in_a_pattern has one
\* row of items per index tuple of the leading axes left, which is the empty
\* tuple alone when every leading axis was summed (shape (N,)).
_get_coordinates_in_upper_hemisphere(z_coordinates, navigation_axes, n_items) ==
    LET z_2d == IF DOMAIN z_coordinates = { <<>> }
                THEN [ ix \in { <<1>> } |-> z_coordinates[<<>>] ]
                ELSE z_coordinates
        upper_hemisphere ==
            [ ix \in DOMAIN z_2d |-> [ n \in 1..n_items |-> z_2d[ix][n] > 0 ] ]
        left == { KeptAxes(ix, navigation_axes) : ix \in DOMAIN z_2d }
        Sum(k, n) == Cardinality({ ix \in DOMAIN z_2d :
                                     /\ KeptAxes(ix, navigation_axes) = k
                                     /\ upper_hemisphere[ix][n] })
    IN  [ upper_hemisphere |-> upper_hemisphere,
          in_a_pattern |->
            [ k \in left |-> [ n \in 1..n_items |-> Sum(k, n) # 0 ] ] ]

\* lexicographic order of index triplets (the row order of np.unique)
LexLess(u, v) ==
    \/ u[1] < v[1]
    \/ u[1] = v[1] /\ u[2] < v[2]
    \/ u[1] = v[1] /\ u[2] = v[2] /\ u[3] < v[3]

RECURSIVE SortedRows(_)
\* the triplets of a finite set in lexicographic order
SortedRows(S) ==
    IF S = {} THEN <<>>
    ELSE LET m == CHOOSE u \in S : \A v \in S : u = v \/ LexLess(u, v)
         IN  <<m>> \o SortedRows(S \ {m})

\* np.unique(rows, axis=0)
NpUniqueRows(rows) == SortedRows({ rows[i] : i \in 1..Len(rows) })

RECURSIVE FirstOccurrences(_, _)
\* the elements of seq not in seen, each kept where it first occurs
FirstOccurrences(seq, seen) ==
    IF seq = <<>> THEN <<>>
    ELSE IF Head(seq) \in seen THEN FirstOccurrences(Tail(seq), seen)
         ELSE <<Head(seq)>> \o FirstOccurrences(Tail(seq), seen \cup {Head(seq)})

\* RoundIndices with the sense fixed: first non-zero component positive
RoundIndicesPositive(u) ==
    LET g == Gcd(Gcd(u[1], u[2]), u[3])
        first == IF u[1] # 0 THEN u[1] ELSE IF u[2] # 0 THEN u[2] ELSE u[3]
        s == IF first < 0 THEN -1 ELSE 1
    IN  IF g = 0 THEN u
        ELSE << s * (u[1] \div g), s * (u[2] \div g), s * (u[3] \div g) >>

\* Miller.round() of an integer triplet: the smallest co-linear integer
\* triplet of the same sense
RoundIndices(u) ==
    LET g == Gcd(Gcd(u[1], u[2]), u[3])
    IN  IF g = 0 THEN u ELSE << u[1] \div g, u[2] \div g, u[3] \div g >>

\* Miller(uvw).round().unique(): every triplet reduced, then the first
\* occurrence of every reduced triplet kept
ReduceAndDeduplicate(uvw) ==
    FirstOccurrences([ q \in 1..Len(uvw) |-> RoundIndices(uvw[q]) ], {})

\* ZoneAxes that keeps the zero vectors of the parallel pairs
ZoneAxesWithZero(hkl) ==
    LET n == Len(hkl)
        cross == [ q \in 1..(n * n) |->
                     Cross3(hkl[((q - 1) \div n) + 1], hkl[((q - 1) % n) + 1]) ]
        unique == NpUniqueRows(cross)
    IN  ReduceAndDeduplicate(unique)

\* ZoneAxes without the reduction to the smallest integer triplets
ZoneAxesUnreduced(hkl) ==
    LET n == Len(hkl)
        cross == [ q \in 1..(n * n) |->
                     Cross3(hkl[((q - 1) \div n) + 1], hkl[((q - 1) % n) + 1]) ]
        nonzero == BoolIndex(cross, [ q \in 1..(n * n) |-> cross[q] # <<0, 0, 0>> ])
    IN  NpUniqueRows(nonzero)

\* ZoneAxes with each pair of reflectors crossed in one order only
ZoneAxesUnorderedPairs(hkl) ==
    LET n == Len(hkl)
        cross == [ q \in 1..(n * n) |->
                     IF ((q - 1) \div n) < ((q - 1) % n)
                     THEN Cross3(hkl[((q - 1) \div n) + 1], hkl[((q - 1) % n) + 1])
                     ELSE <<0, 0, 0>> ]
        nonzero == BoolIndex(cross, [ q \in 1..(n * n) |-> cross[q] # <<0, 0, 0>> ])
        unique == NpUniqueRows(nonzero)
    IN  ReduceAndDeduplicate(unique)

\* Zone axes <uvw> from {hkl}: cross products of all ordered pairs, zero
\* vectors removed, np.unique, Miller.round().unique()
ZoneAxes(hkl) ==
    LET n == Len(hkl)
        cross == [ q \in 1..(n * n) |->
                     Cross3(hkl[((q - 1) \div n) + 1], hkl[((q - 1) % n) + 1]) ]
        nonzero == BoolIndex(cross, [ q \in 1..(n * n) |-> cross[q] # <<0, 0, 0>> ])
        unique == NpUniqueRows(nonzero)
    IN  ReduceAndDeduplicate(unique)

\* Transformation from the detector frame to the sample frame, u_s
SampleToDetector(detector) ==
    LET total_tilt == AngleSub(AngleSub(detector.sample_tilt, Deg90), detector.tilt)
        u_s_bruker == AxisAngleMatrix(<<-1, 0, 0>>, total_tilt)
    IN  MatMul(AxisAngleMatrix(<<0, 0, -1>>, MinusHalfPi), u_s_bruker)

\* ProjectAndCull that leaves the culled items in the coordinates
ProjectAndCullIndicesOnly(indices, u, nav_axes) ==
    LET d_all == [ ix \in DOMAIN u |->
                     [ n \in 1..Len(indices) |-> VecMat(indices[n], u[ix]) ] ]
        z == [ ix \in DOMAIN u |-> [ n \in 1..Len(indices) |-> d_all[ix][n][3] ] ]
        masks == _get_coordinates_in_upper_hemisphere(z, nav_axes, Len(indices))
        in_a_pattern == masks.in_a_pattern[<<>>]
    IN  [ z_coordinates |-> z,
          is_upper |-> masks.upper_hemisphere,
          in_a_pattern |-> in_a_pattern,
          in_pattern |-> [ ix \in DOMAIN u |->
                             BoolIndex(masks.upper_hemisphere[ix], in_a_pattern) ],
          detector_coordinates |-> d_all,
          indices |-> BoolIndex(indices, in_a_pattern) ]

\* Project index triplets with the per-orientation transform u and keep the
\* items that are in some pattern
ProjectAndCull(indices, u, nav_axes) ==
    LET d_all == [ ix \in DOMAIN u |->
                     [ n \in 1..Len(indices) |-> VecMat(indices[n], u[ix]) ] ]
        z == [ ix \in DOMAIN u |-> [ n \in 1..Len(indices) |-> d_all[ix][n][3] ] ]
        masks == _get_coordinates_in_upper_hemisphere(z, nav_axes, Len(indices))
        in_a_pattern == masks.in_a_pattern[<<>>]     \* used as a mask over the items
    IN  [ z_coordinates |-> z,
          is_upper |-> masks.upper_hemisphere,
          in_a_pattern |-> in_a_pattern,
          in_pattern |-> [ ix \in DOMAIN u |->
                             BoolIndex(masks.upper_hemisphere[ix], in_a_pattern) ],
          detector_coordinates |-> [ ix \in DOMAIN u |->
                                       BoolIndex(d_all[ix], in_a_pattern) ],
          indices |-> BoolIndex(indices, in_a_pattern) ]

\* ------------------------------------------------------------- on_detector

on_detector(refs, lattice, detector, rotations) ==
    LET hkl_all == [ n \in 1..Len(refs) |-> refs[n].hkl ]
        u_s == SampleToDetector(detector)
        u_os == [ ix \in NavIndices(rotations.shape) |->
                    MatMul(rotations.matrix[ix], u_s) ]
        u_kstar == [ ix \in DOMAIN u_os |-> MatMul(Transpose(lattice.recbase), u_os[ix]) ]
        nav_axes == SubSeq(<<0, 1>>, 1, Len(rotations.shape))
        lines == ProjectAndCull(hkl_all, u_kstar, nav_axes)
        uvw_all == ZoneAxes(lines.indices)
        u_k == [ ix \in DOMAIN u_os |-> MatMul(lattice.base, u_os[ix]) ]
        zone_axes == ProjectAndCull(uvw_all, u_k, nav_axes)
    IN  [ op |-> "on_detector", detector |-> detector, rotations |-> rotations,
          status |-> "ok",
          reflectors |-> BoolIndex(refs, lines.in_a_pattern),
          lines |-> [ hkl |-> lines.indices,
                      hkl_detector |-> lines.detector_coordinates,
                      in_pattern |-> lines.in_pattern,
                      max_r_gnomonic |-> detector.r_max[1] ],
          zone_axes |-> [ uvw |-> zone_axes.indices,
                          uvw_detector |-> zone_axes.detector_coordinates,
                          in_pattern |-> zone_axes.in_pattern,
                          max_r_gnomonic |-> detector.r_max[1] ],
          \* values of the local variables of the call
          hkl_z |-> lines.z_coordinates,
          hkl_is_upper |-> lines.is_upper,
          hkl_in_a_pattern |-> lines.in_a_pattern,
          uvw_before_culling |-> uvw_all,
          uvw_z |-> zone_axes.z_coordinates,
          uvw_is_upper |-> zone_axes.is_upper,
          uvw_in_a_pattern |-> zone_axes.in_a_pattern ]

OnDetector(detector, rotations) ==
    /\ ret.op = "none"
    /\ ret' = on_detector(reflectors, phase, detector, rotations)
    /\ UNCHANGED <<reflectors, phase, file, reader>>

InitDetector ==
    /\ reflectors \in CalculatedReflectorSets
    /\ phase \in Phases
    /\ ret = NoCall
    /\ file = None
    /\ reader = None

NextDetector ==
    \/ \E detector \in Detectors, rotations \in RotationBatches :
          OnDetector(detector, rotations)
    \/ Return

SpecDetector == InitDetector /\ [][NextDetector]_vars

\* ------------------------------- _get_coordinates_in_upper_hemisphere alone

MaxItems == 2          \* most items (last axis) of the z-coordinates drawn

\* index tuples of the leading axes of the z-coordinates drawn: none (a 1-D
\* array), one axis, two axes
LeadingIndexSets ==
    { { <<>> }, NavIndices(<<1>>), NavIndices(<<2>>),
      NavIndices(<<1, 2>>), NavIndices(<<2, 1>>) }

ZCoordinates(n) ==
    UNION { [ D -> [ 1..n -> {-1, 0, 1} ] ] : D \in LeadingIndexSets }

\* the function on z-coordinates of n items, with the navigation axes that
\* on_detector passes for a batch of as many dimensions as z has leading axes
UpperHemisphere(z_coordinates, n) ==
    /\ ret.op = "none"
    /\ LET ndim == Len(CHOOSE ix \in DOMAIN z_coordinates : TRUE)
           nav_axes == SubSeq(<<0, 1>>, 1, ndim)
           masks == _get_coordinates_in_upper_hemisphere(z_coordinates, nav_axes, n)
       IN  ret' = [ op |-> "_get_coordinates_in_upper_hemisphere",
                    z_coordinates |-> z_coordinates, navigation_axes |-> nav_axes,
                    n_items |-> n,
                    upper_hemisphere |-> masks.upper_hemisphere,
                    in_a_pattern |-> masks.in_a_pattern ]
    /\ UNCHANGED <<reflectors, phase, file, reader>>

InitHemisphere ==
    /\ reflectors = <<>>
    /\ phase = None
    /\ ret = NoCall
    /\ file = None
    /\ reader = None

NextHemisphere ==
    \/ \E n \in 1..MaxItems : \E z_coordinates \in ZCoordinates(n) :
          UpperHemisphere(z_coordinates, n)
    \/ Return

SpecHemisphere == InitHemisphere /\ [][NextHemisphere]_vars

\* -------------------------------------------------------------------- plot

Projections == {"stereographic", "spherical", "gnomonic"}
Modes == {"lines", "bands", "points"}
Backends == {"matplotlib", "pyvista", "plotly"}

\* _plot_spherical: the drawing calls made, in order
_plot_spherical(mode, backend, figure) ==
    IF backend = "matplotlib"
    THEN (IF IsNone(figure) THEN <<"plt.subplots">> ELSE <<>>)
         \o (IF mode = "lines" THEN <<"ax.plot3D">> ELSE <<"ax.plot3D", "ax.plot3D">>)
         \o <<"ax.add_artist">>
    ELSE <<"import pyvista">>
         \o (IF IsNone(figure) THEN <<"pv.Plotter">> ELSE <<>>)
         \o <<"figure.add_mesh">>
         \o (IF IsNone(figure) THEN <<"figure.show">> ELSE <<>>)

\* The whole call: status, and the drawing calls made before it ended
plot(refs, projection, mode, figure, return_figure, backend) ==
    LET call == [ op |-> "plot", projection |-> projection, mode |-> mode,
                  figure |-> figure, return_figure |-> return_figure,
                  backend |-> backend ]
        Fail(class, what) ==
            call @@ [ status |-> class, error |-> what, drawn |-> <<>>,
                      returned |-> FALSE ]
        Done(drawn) ==
            call @@ [ status |-> "ok", error |-> "", drawn |-> drawn,
                      returned |-> return_figure ]
    IN  IF mode \notin {"lines", "bands"}
        THEN Fail("ValueError", "mode")
        ELSE IF mode = "bands" /\ NoTheta(refs)
        THEN Fail("ValueError", "Requires that reflectors have Bragg angles")
        ELSE IF AnyNone(refs, "structure_factor")
        THEN Fail("TypeError", "structure_factor")
        ELSE IF projection = "stereographic"
        THEN IF mode = "lines"
             THEN Done(<<"draw_circle">>)
             ELSE IF AnyNone(refs, "theta")
                  THEN Fail("TypeError", "theta")
                  ELSE Done(<<"draw_circle", "draw_circle">>)
        ELSE IF projection = "spherical"
        THEN IF mode = "bands" /\ AnyNone(refs, "theta")
             THEN Fail("TypeError", "theta")
             ELSE Done(_plot_spherical(mode, backend, figure))
        ELSE Fail("ValueError", "Unknown projection")

Plot(projection, mode, figure, return_figure, backend) ==
    /\ ret.op = "none"
    /\ ret' = plot(reflectors, projection, mode, figure, return_figure, backend)
    /\ UNCHANGED <<reflectors, phase, file, reader>>

InitPlot ==
    /\ reflectors \in ReflectorSets
    /\ phase \in Phases
    /\ ret = NoCall
    /\ file = None
    /\ reader = None

NextPlot ==
    \/ \E projection \in Projections, mode \in Modes, figure \in {None, Some("figure")},
          return_figure \in BOOLEAN, backend \in Backends :
          Plot(projection, mode, figure, return_figure, backend)
    \/ Return

SpecPlot == InitPlot /\ [][NextPlot]_vars

\* ------------------------------------------- calls on one shared simulator

\* Two callers use the same simulator at once.  A call reads the simulator
\* (self._reflectors and its phase) and its arguments and builds everything
\* else itself; ret.call[c] is the position of caller c.
Callers == {"first", "second"}

CallArguments ==
    { [ op |-> "on_detector", detector |-> d, rotations |-> r ] :
        d \in { x \in Detectors : x.tilt = Deg0 /\ x.sample_tilt # Deg53 },
        r \in { SingleRotation(Identity3), SingleRotation(RotY90),
                PairRotation(RotX90, Rot111By180) } }
    \cup
    { [ op |-> "calculate_master_pattern", half_size |-> 1,
        hemisphere |-> h, scaling |-> sc ] :
        h \in {"north", "both"}, sc \in {"linear", "square"} }

\* what a call with these arguments returns on a simulator
CallOutcome(arguments, refs, lattice) ==
    IF arguments.op = "on_detector"
    THEN on_detector(refs, lattice, arguments.detector, arguments.rotations)
    ELSE calculate_master_pattern(refs, lattice, arguments.half_size,
                                  arguments.hemisphere, arguments.scaling)

\* self._reflectors with the visible reflectors of on_detector written back
ReflectorsCulledByCall(refs, outcome) ==
    IF outcome.op = "on_detector" /\ outcome.reflectors # <<>>
    THEN outcome.reflectors
    ELSE refs

\* self._reflectors after a call: it is assigned in __init__ only, and the
\* visible reflectors of on_detector are a new object
ReflectorsAfterCall(refs, outcome) == refs

Idle == [ pc |-> "idle" ]

Running(c) == ret.call[c].pc = "running"

\* caller c enters a method of the simulator
BeginCall(c, arguments) ==
    /\ ret.call[c].pc = "idle"
    /\ ret' = [ ret EXCEPT !.call =
                 [ k \in Callers |->
                     IF k = c
                     THEN [ pc |-> "running", arguments |-> arguments,
                            overlapped |-> \E o \in Callers \ {c} : Running(o) ]
                     ELSE IF Running(k)
                     THEN [ ret.call[k] EXCEPT !.overlapped = TRUE ]
                     ELSE ret.call[k] ] ]
    /\ UNCHANGED <<reflectors, phase, file, reader>>

\* the method of caller c runs to its end on the simulator as it is now
FinishCall(c) ==
    /\ Running(c)
    /\ LET outcome == CallOutcome(ret.call[c].arguments, reflectors, phase)
       IN  /\ ret' = [ ret EXCEPT !.call[c] =
                         [ pc |-> "done", arguments |-> ret.call[c].arguments,
                           overlapped |-> ret.call[c].overlapped,
                           outcome |-> outcome ] ]
           /\ reflectors' = ReflectorsAfterCall(reflectors, outcome)
    /\ UNCHANGED <<phase, file, reader>>

\* caller c drops the outcome and is free to call again
ForgetCall(c) ==
    /\ ret.call[c].pc = "done"
    /\ ret' = [ ret EXCEPT !.call[c] = Idle ]
    /\ UNCHANGED <<reflectors, phase, file, reader>>

\* ret.simulator: the simulator as __init__ left it
InitCalls ==
    /\ reflectors \in CalculatedReflectorSets
    /\ phase \in Phases
    /\ ret = [ op |-> "calls",
               simulator |-> [ reflectors |-> reflectors, phase |-> phase ],
               call |-> [ c \in Callers |-> Idle ] ]
    /\ file = None
    /\ reader = None

NextCalls ==
    \/ \E c \in Callers, arguments \in CallArguments : BeginCall(c, arguments)
    \/ \E c \in Callers : FinishCall(c)
    \/ \E c \in Callers : ForgetCall(c)

SpecCalls == InitCalls /\ [][NextCalls]_vars

\* ------------------------------------------------------------ h5ebsd files

MaxScans == 2          \* most top groups in a file

\* str.lower() of the strings that occur in the files
Lower(s) ==
    CASE s = "Manufacturer" -> "manufacturer"
      [] s = "Version" -> "version"
      [] s = "Format Version" -> "format version"
      [] s = "EDAX" -> "edax"
      [] s = "Acme" -> "acme"
      [] s = "Bruker Nano" -> "bruker nano"
      [] OTHER -> s

\* H5EBSDReader.manufacturer_patterns
manufacturer_patterns ==
    ("bruker nano" :> "RawPatterns") @@ ("edax" :> "Pattern")
    @@ ("kikuchipy" :> "patterns") @@ ("oxford instruments" :> "Processed Patterns")

ScanNames == << "Scan 1", "Scan 2", "Scan 3", "Scan 4" >>

\* Top groups of a file, in the order of file.keys(): "EBSD/Data" in group,
\* "EBSD/Header" in group, and whether the subclass's scan2dict can read it
ScanGroups(k) ==
    { [ i \in 1..k |-> [ name |-> ScanNames[i], data |-> b[i][1],
                         header |-> b[i][2], readable |-> b[i][3] ] ] :
        b \in [ 1..k -> BOOLEAN \X BOOLEAN \X BOOLEAN ] }

\* Datasets of the top group, <<name, value>>, in the order of group.items()
TopDatasets ==
    { v \o m : v \in { <<>>, << <<"Format Version", "3.0">> >> },
               m \in { <<>>,
                       << <<"Manufacturer", "kikuchipy">> >>,
                       << <<"Manufacturer", "EDAX">>, <<"Version", "0.1">> >>,
                       << <<"Manufacturer", "Acme">>, <<"Version", "0.1">> >>,
                       << <<"Manufacturer", "Bruker Nano">>, <<"Version", "0.1">> >>,
                       << <<"Version", "0.1">> >> } }

Files ==
    { [ open |-> FALSE, datasets |-> d, groups |-> g ] :
        d \in TopDatasets, g \in UNION { ScanGroups(k) : k \in 0..MaxScans } }

RECURSIVE ManufacturerVersionFrom(_, _, _)
\* the loop of get_manufacturer_version over the items not yet visited
ManufacturerVersionFrom(items, manufacturer, version) ==
    IF items = <<>> THEN << manufacturer, version >>
    ELSE LET key == Head(items)[1]
             val == Head(items)[2]
         IN  IF Lower(key) = "manufacturer"
             THEN ManufacturerVersionFrom(Tail(items), Some(Lower(val)), version)
             ELSE IF Lower(key) \in {"version", "format version"}
             THEN ManufacturerVersionFrom(Tail(items), manufacturer, Some(Lower(val)))
             ELSE ManufacturerVersionFrom(Tail(items), manufacturer, version)

\* <<manufacturer, version>>, each None when the top group has no such dataset
get_manufacturer_version(f) == ManufacturerVersionFrom(f.datasets, None, None)

\* every top group of the file is a scan group
get_scan_groups(f) == f.groups

\* [group.name.lstrip("/") for group in self.scan_groups]
scan_group_names(rdr) == [ i \in 1..Len(rdr.scan_groups) |-> rdr.scan_groups[i].name ]

\* check_file: "ok", or the class and message of the exception that leaves it
check_file(rdr, f) ==
    LET error1 == IF IsNone(rdr.manufacturer) \/ IsNone(rdr.version)
                  THEN Some("manufacturer and/or version could not be read")
                  ELSE None
        error2 == IF ~\E i \in 1..Len(rdr.scan_groups) :
                        rdr.scan_groups[i].data /\ rdr.scan_groups[i].header
                  THEN Some("no top groups with EBSD/Data and EBSD/Header")
                  ELSE error1
        man == get_manufacturer_version(f)[1]
    IN  IF IsNone(man)
        THEN [ status |-> "AttributeError",
               error |-> "'NoneType' object has no attribute 'lower'" ]
        ELSE LET error3 == IF Lower(Val(man)) \notin DOMAIN manufacturer_patterns
                           THEN Some("not among supported manufacturers")
                           ELSE error2
             IN  IF ~IsNone(error3)
                 THEN [ status |-> "IOError", error |-> Val(error3) ]
                 ELSE [ status |-> "ok", error |-> "" ]

\* H5EBSDReader(filename): the file is opened, the attributes are read,
\* check_file runs; an exception leaves no reader behind.
Construct ==
    /\ ret.op = "none"
    /\ reader = None
    /\ LET opened == [ file EXCEPT !.open = TRUE ]
           mv == get_manufacturer_version(opened)
           self == [ scan_groups |-> get_scan_groups(opened),
                     manufacturer |-> mv[1], version |-> mv[2] ]
           checked == check_file(self, opened)
       IN  /\ file' = opened
           /\ ret' = [ op |-> "__init__" ] @@ checked
           /\ reader' = IF checked.status = "ok"
                        THEN Some(self @@ [ patterns_name |->
                                   manufacturer_patterns[Val(self.manufacturer)] ])
                        ELSE None
    /\ UNCHANGED <<reflectors, phase>>

\* group_names arguments: None, a name, or a list of names
GroupNames ==
    LET names == { ScanNames[i] : i \in 1..(MaxScans + 1) }
    IN  { [ kind |-> "none" ] }
        \cup { [ kind |-> "str", name |-> n ] : n \in names }
        \cup { [ kind |-> "list", names |-> l ] :
                 l \in { <<>> } \cup { <<n>> : n \in names }
                       \cup { <<n, m>> : n \in names, m \in names } }

\* position of the first scan group with this name, 0 when there is none
FirstNamed(desired_name, rdr) ==
    LET hits == { i \in 1..Len(rdr.scan_groups) : scan_group_names(rdr)[i] = desired_name }
    IN  IF hits = {} THEN 0 ELSE CHOOSE i \in hits : \A j \in hits : i <= j

RECURSIVE DesiredFrom(_, _, _, _, _)
\* the loop of get_desired_scan_groups over the names not yet visited
DesiredFrom(rest, n_names, rdr, scan_groups, warned) ==
    IF rest = <<>>
    THEN [ status |-> "ok", scan_groups |-> scan_groups, warned |-> warned ]
    ELSE LET i == FirstNamed(Head(rest), rdr)
         IN  IF i # 0
             THEN DesiredFrom(Tail(rest), n_names, rdr,
                              Append(scan_groups, rdr.scan_groups[i]), warned)
             ELSE IF n_names = 1
             THEN [ status |-> "IOError", scan_groups |-> <<>>, warned |-> warned ]
             ELSE DesiredFrom(Tail(rest), n_names, rdr, scan_groups,
                              Append(warned, Head(rest)))

\* get_desired_scan_groups that raises for every name that is not available
DesiredScanGroupsRaisingAlways(rdr, group_names) ==
    IF group_names.kind = "none"
    THEN IF rdr.scan_groups = <<>>
         THEN [ status |-> "IndexError", scan_groups |-> <<>>, warned |-> <<>> ]
         ELSE [ status |-> "ok", scan_groups |-> << rdr.scan_groups[1] >>,
                warned |-> <<>> ]
    ELSE LET names == IF group_names.kind = "str"
                      THEN << group_names.name >>
                      ELSE group_names.names
         IN  DesiredFrom(names, 1, rdr, <<>>, <<>>)

\* status "ok" with the scan groups returned and the names warned about, or
\* the class of the exception raised
get_desired_scan_groups(rdr, group_names) ==
    IF group_names.kind = "none"
    THEN IF rdr.scan_groups = <<>>
         THEN [ status |-> "IndexError", scan_groups |-> <<>>, warned |-> <<>> ]
         ELSE [ status |-> "ok", scan_groups |-> << rdr.scan_groups[1] >>,
                warned |-> <<>> ]
    ELSE LET names == IF group_names.kind = "str"
                      THEN << group_names.name >>
                      ELSE group_names.names
         IN  DesiredFrom(names, Len(names), rdr, <<>>, <<>>)

\* scan2dict of the subclass: the dictionary of a scan, or an exception
scan2dict(group, lazy) ==
    IF group.readable
    THEN [ status |-> "ok", scan |-> [ name |-> group.name, lazy |-> lazy ] ]
    ELSE [ status |-> "KeyError", scan |-> None ]

RECURSIVE ScanDictsFrom(_, _, _)
\* the loop of read over the scan groups not yet visited
ScanDictsFrom(groups, lazy, scan_dict_list) ==
    IF groups = <<>> THEN [ status |-> "ok", scan_dict_list |-> scan_dict_list ]
    ELSE LET d == scan2dict(Head(groups), lazy)
         IN  IF d.status # "ok"
             THEN [ status |-> d.status, scan_dict_list |-> scan_dict_list ]
             ELSE ScanDictsFrom(Tail(groups), lazy, Append(scan_dict_list, d.scan))

\* read: the outcome of the call and the file after it
ReadScans(rdr, f, group_names, lazy) ==
    LET desired == get_desired_scan_groups(rdr, group_names)
        call == [ op |-> "read", group_names |-> group_names, lazy |-> lazy,
                  warned |-> desired.warned ]
    IN  IF desired.status # "ok"
        THEN [ outcome |-> call @@ [ status |-> desired.status, value |-> None ],
               file |-> f ]
        ELSE LET dicts == ScanDictsFrom(desired.scan_groups, lazy, <<>>)
             IN  IF dicts.status # "ok"
                 THEN [ outcome |-> call @@ [ status |-> dicts.status, value |-> None ],
                        file |-> f ]
                 ELSE [ outcome |-> call @@ [ status |-> "ok",
                                              value |-> Some(dicts.scan_dict_list) ],
                        file |-> IF lazy THEN f ELSE [ f EXCEPT !.open = FALSE ] ]

\* reader.read(group_names, lazy) on a reader whose file is open
Read(group_names, lazy) ==
    /\ ret.op = "none"
    /\ reader # None
    /\ file.open
    /\ LET r == ReadScans(Val(reader), file, group_names, lazy)
       IN  ret' = r.outcome /\ file' = r.file
    /\ UNCHANGED <<reflectors, phase, reader>>

\* reader.get_desired_scan_groups(group_names) on a reader whose file is open
GetDesiredScanGroups(group_names) ==
    /\ ret.op = "none"
    /\ reader # None
    /\ file.open
    /\ ret' = [ op |-> "get_desired_scan_groups", group_names |-> group_names ]
               @@ get_desired_scan_groups(Val(reader), group_names)
    /\ UNCHANGED <<reflectors, phase, file, reader>>

InitReader ==
    /\ reflectors = <<>>
    /\ phase = None
    /\ ret = NoCall
    /\ file \in Files
    /\ reader = None

NextReader ==
    \/ Construct
    \/ \E group_names \in GroupNames, lazy \in BOOLEAN : Read(group_names, lazy)
    \/ \E group_names \in GroupNames : GetDesiredScanGroups(group_names)
    \/ Return

SpecReader == InitReader /\ [][NextReader]_vars

\* ------------------------------------------------------- _dict2hdf5group

MaxEntries == 3        \* most entries of the dictionary written

Keys == << "a", "b", "c", "d", "e" >>

\* Values by what _dict2hdf5group does with them:
\*   "str"      a string: encoded, dtype "S<n>"
\*   "array"    a numpy array: type(val) == np.dtype("O"), dtype and shape read
\*   "object"   an object that cannot be indexed (a set): val[0] is a TypeError
\*   "floats"   a list of Python floats: val[0].dtype is an AttributeError
\*   "dict"     a dictionary, written as a subgroup
LeafKinds == {"str", "array", "object", "floats"}

Entry(key, kind, items) == [ key |-> key, kind |-> kind, items |-> items ]

SubDictionaries ==
    { << >>,
      << Entry("x", "str", <<>>) >>,
      << Entry("x", "object", <<>>), Entry("y", "str", <<>>) >> }

\* dictionaries of n entries, keyed Keys[1..n] in insertion order
DictionariesOf(n) ==
    { [ i \in 1..n |-> Entry(Keys[i], v[i][1], v[i][2]) ] :
        v \in [ 1..n -> { <<k, <<>> >> : k \in LeafKinds }
                        \cup { <<"dict", d>> : d \in SubDictionaries } ] }

Dictionaries == UNION { DictionariesOf(n) : n \in 0..MaxEntries }

RECURSIVE WriteEntries(_, _, _)
\* the loop of _dict2hdf5group over the items not yet visited: the group
\* written so far, the keys warned about, "ok" or the exception that ends it
WriteEntries(items, group, warned) ==
    IF items = <<>> THEN [ status |-> "ok", group |-> group, warned |-> warned ]
    ELSE LET e == Head(items)
         IN  IF e.kind = "dict"
             THEN LET sub == WriteEntries(e.items, <<>>, <<>>)
                      written == Append(group, Entry(e.key, "group", sub.group))
                  IN  IF sub.status # "ok"
                      THEN [ status |-> sub.status, group |-> written,
                             warned |-> warned \o sub.warned ]
                      ELSE WriteEntries(Tail(items), written, warned \o sub.warned)
             ELSE IF e.kind = "object"
             THEN [ status |-> "ok", group |-> group, warned |-> Append(warned, e.key) ]
             ELSE IF e.kind = "floats"
             THEN [ status |-> "AttributeError", group |-> group, warned |-> warned ]
             ELSE WriteEntries(Tail(items),
                               Append(group, Entry(e.key, "dataset", <<>>)), warned)

\* _dict2hdf5group(dictionary, group) on a new, empty group of an open file
Dict2Hdf5Group(dictionary) ==
    /\ ret.op = "none"
    /\ file.root = <<>>
    /\ LET w == WriteEntries(dictionary, file.root, <<>>)
       IN  /\ file' = [ file EXCEPT !.root = w.group ]
           /\ ret' = [ op |-> "_dict2hdf5group", dictionary |-> dictionary,
                       status |-> w.status, warned |-> w.warned ]
    /\ UNCHANGED <<reflectors, phase, reader>>

InitWriter ==
    /\ reflectors = <<>>
    /\ phase = None
    /\ ret = NoCall
    /\ file = [ open |-> TRUE, root |-> <<>> ]
    /\ reader = None

NextWriter ==
    \/ \E dictionary \in Dictionaries : Dict2Hdf5Group(dictionary)
    \/ Return

SpecWriter == InitWriter /\ [][NextWriter]_vars

\* ------------------------------------------------ master pattern properties

MasterCalled == ret.op = "calculate_master_pattern"
MasterOk == MasterCalled /\ ret.status = "ok"

\* the 2-D patterns of an outcome, north before south
Slices(r) == IF r.hemisphere = "both" THEN Val(r.value) ELSE << Val(r.value) >>

SlicePole(hemisphere, i) ==
    IF hemisphere = "south" \/ (hemisphere = "both" /\ i = 2) THEN 1 ELSE -1

\* class of the pair (pixel at row r, column c; reflector ref)
PixelClass(ref, lattice, size, pole, r, c) ==
    LET p == (r - 1) * size + c
        dp == DotProduct(XY2Vector(pole, GridX(size, p), GridY(size, p)),
                         Cartesian(ref, lattice))
    IN  IF Mask1(dp) THEN "zone"
        ELSE IF Mask2(dp, Val(ref.theta)) THEN "band" ELSE "outside"

SingleSquare == MasterOk /\ Len(reflectors) = 1 /\ ret.scaling = "square"

LinearOutcome ==
    calculate_master_pattern(reflectors, phase, ret.half_size, ret.hemisphere, "linear")

\* C2 as stated: single reflector, square pattern = (linear pattern)^2 at
\* every pixel.  In half units S = 2 s, L = 2 l:  s = l^2  <=>  2 S = L^2.
C2_SquareIsLinearSquared ==
    SingleSquare =>
        LET size == 2 * ret.half_size + 1
        IN  \A i \in 1..Len(Slices(ret)), r \in 1..size, c \in 1..size :
                2 * Slices(ret)[i][r][c]
                    = Slices(LinearOutcome)[i][r][c] * Slices(LinearOutcome)[i][r][c]

\* C2 amended: single reflector; at every pixel outside the exact zone-line
\* class the square pattern is the linear pattern squared, and at every
\* exact zone-line pixel it is twice the linear pattern squared
\* (0.5 |F|^2 against (0.5 |F|)^2).
C2_SquareIsLinearSquaredOffZoneLine ==
    SingleSquare =>
        LET size == 2 * ret.half_size + 1
        IN  \A i \in 1..Len(Slices(ret)), r \in 1..size, c \in 1..size :
                LET S == Slices(ret)[i][r][c]
                    L == Slices(LinearOutcome)[i][r][c]
                IN  IF PixelClass(reflectors[1], phase, size,
                                  SlicePole(ret.hemisphere, i), r, c) = "zone"
                    THEN S = L * L /\ S > 0
                    ELSE 2 * S = L * L

\* C2 witness: a single-reflector square pattern with a pixel of each class
C2_Witness ==
    /\ SingleSquare
    /\ LET size == 2 * ret.half_size + 1
       IN  \A class \in {"zone", "band", "outside"} :
             \E r \in 1..size, c \in 1..size :
                PixelClass(reflectors[1], phase, size,
                           SlicePole(ret.hemisphere, 1), r, c) = class

\* C3: the stack returned for hemisphere "both" holds the "north" pattern
\* first and the "south" pattern second, pixel for pixel.
C3_BothStacksNorthThenSouth ==
    (MasterOk /\ ret.hemisphere = "both") =>
        /\ Len(Val(ret.value)) = 2
        /\ Val(ret.value)[1]
             = Val(calculate_master_pattern(reflectors, phase, ret.half_size,
                                            "north", ret.scaling).value)
        /\ Val(ret.value)[2]
             = Val(calculate_master_pattern(reflectors, phase, ret.half_size,
                                            "south", ret.scaling).value)

\* C3 witness: a "both" stack whose two slices differ
C3_Witness ==
    /\ MasterOk
    /\ ret.hemisphere = "both"
    /\ Val(ret.value)[1] # Val(ret.value)[2]

\* C6: a call that fails has stored nothing and returns nothing; a call with
\* an unknown hemisphere or scaling, or with the Bragg angles or structure
\* factors not calculated, fails; a call that succeeds has stored.
C6_ErrorsBeforeMaterialization ==
    MasterCalled =>
        /\ ret.status # "ok" => (~ret.stored /\ IsNone(ret.value))
        /\ ret.status = "ok" => (ret.stored /\ ~IsNone(ret.value))
        /\ ( \/ ret.hemisphere \notin {"north", "south", "both"}
             \/ ret.scaling \notin {"linear", "square", PyNone}
             \/ IsNone(reflectors[1].theta)
             \/ IsNone(reflectors[1].structure_factor) ) => ret.status = "ValueError"

\* C6 witness: the last check of the call (the scaling) fails, all else valid
C6_Witness ==
    /\ MasterCalled
    /\ ret.status = "ValueError"
    /\ ret.error = "Unknown scaling"
    /\ ret.hemisphere = "both"
    /\ ~ret.stored

\* C7 as stated: the call fails whenever a Bragg angle or a structure factor
\* is absent on any reflector, whatever its position.
C7_AbsentAttributeFails ==
    ( /\ MasterCalled
      /\ \E i \in 1..Len(reflectors) :
            IsNone(reflectors[i].theta) \/ IsNone(reflectors[i].structure_factor) )
    => ret.status # "ok"

\* C8 as stated: with the reflectors calculated and a valid hemisphere, the
\* scaling written "None" is accepted and gives every reflector intensity 1.
C8_DocumentedNoneAccepted ==
    ( /\ MasterCalled
      /\ ret.scaling = "None"
      /\ ret.hemisphere \in {"north", "south", "both"}
      /\ \A i \in 1..Len(reflectors) :
            ~IsNone(reflectors[i].theta) /\ ~IsNone(reflectors[i].structure_factor) )
    => ( /\ ret.status = "ok"
         /\ \A k \in 1..Len(reflectors) : Val(ret.intensity)[k] = 1 )

\* C10: a successful call returns shape (2h+1, 2h+1), or (2, 2h+1, 2h+1) for
\* "both", and every grid point of every hemisphere is written exactly once.
C10_GridShape ==
    MasterOk =>
        LET size == 2 * ret.half_size + 1
            n == IF ret.hemisphere = "both" THEN 2 ELSE 1
        IN  /\ Val(ret.shape_out)
                 = (IF ret.hemisphere = "both" THEN <<2, size, size>> ELSE <<size, size>>)
            /\ Len(Slices(ret)) = n
            /\ \A i \in 1..n :
                 /\ Len(Slices(ret)[i]) = size
                 /\ \A r \in 1..size : Len(Slices(ret)[i][r]) = size
                 /\ Len(Val(ret.writes)[i]) = size * size
                 /\ \A p \in 1..(size * size) : Val(ret.writes)[i][p] = 1

\* C10 witness: both hemispheres on a grid whose last row block is incomplete
C10_Witness ==
    /\ MasterOk
    /\ ret.hemisphere = "both"
    /\ ret.half_size > 1
    /\ ((2 * ret.half_size + 1) * (2 * ret.half_size + 1)) % ret.half_size # 0

\* --------------------------------------------------- on_detector properties

DetectorCalled == ret.op = "on_detector"

\* C1: the per-orientation mask is True exactly where z > 0, for reflectors
\* and for zone axes, before and after culling; z = 0 and z < 0 give False.
C1_MaskIsPositiveZ ==
    DetectorCalled =>
        /\ \A ix \in DOMAIN ret.hkl_z : \A n \in 1..Len(ret.hkl_z[ix]) :
              ret.hkl_is_upper[ix][n] = (ret.hkl_z[ix][n] > 0)
        /\ \A ix \in DOMAIN ret.uvw_z : \A n \in 1..Len(ret.uvw_z[ix]) :
              ret.uvw_is_upper[ix][n] = (ret.uvw_z[ix][n] > 0)
        /\ \A ix \in DOMAIN ret.lines.in_pattern : \A n \in 1..Len(ret.lines.hkl) :
              ret.lines.in_pattern[ix][n] = (ret.lines.hkl_detector[ix][n][3] > 0)
        /\ \A ix \in DOMAIN ret.zone_axes.in_pattern : \A n \in 1..Len(ret.zone_axes.uvw) :
              ret.zone_axes.in_pattern[ix][n] = (ret.zone_axes.uvw_detector[ix][n][3] > 0)

\* C1 witness: a returned line exactly on the horizon in one orientation,
\* masked out there, and another below the horizon
C1_Witness ==
    /\ DetectorCalled
    /\ \E ix \in DOMAIN ret.lines.in_pattern : \E n \in 1..Len(ret.lines.hkl) :
          ret.lines.hkl_detector[ix][n][3] = 0 /\ ~ret.lines.in_pattern[ix][n]
    /\ \E ix \in DOMAIN ret.lines.in_pattern : \E n \in 1..Len(ret.lines.hkl) :
          ret.lines.hkl_detector[ix][n][3] < 0 /\ ~ret.lines.in_pattern[ix][n]

ConstantGrid ==
    /\ DetectorCalled
    /\ ret.rotations.shape = <<GridSide, GridSide>>
    /\ \A ix \in DOMAIN ret.rotations.matrix :
          ret.rotations.matrix[ix] = ret.rotations.matrix[<<1, 1>>]

\* C4: a grid of equal orientations gives the index sets of the single
\* orientation and, in every cell, its coordinates and its masks.
C4_GridOfEqualOrientations ==
    ConstantGrid =>
        LET single == on_detector(reflectors, phase, ret.detector,
                                  SingleRotation(ret.rotations.matrix[<<1, 1>>]))
        IN  /\ ret.lines.hkl = single.lines.hkl
            /\ ret.zone_axes.uvw = single.zone_axes.uvw
            /\ DOMAIN ret.lines.hkl_detector = NavIndices(<<GridSide, GridSide>>)
            /\ \A ix \in NavIndices(<<GridSide, GridSide>>) :
                 /\ ret.lines.hkl_detector[ix] = single.lines.hkl_detector[<<1>>]
                 /\ ret.lines.in_pattern[ix] = single.lines.in_pattern[<<1>>]
                 /\ ret.zone_axes.uvw_detector[ix] = single.zone_axes.uvw_detector[<<1>>]
                 /\ ret.zone_axes.in_pattern[ix] = single.zone_axes.in_pattern[<<1>>]

\* C4 witness: a grid call that culls a reflector and keeps lines and zone axes
C4_Witness ==
    /\ ConstantGrid
    /\ Len(ret.lines.hkl) >= 2
    /\ Len(ret.lines.hkl) < Len(reflectors)
    /\ Len(ret.zone_axes.uvw) >= 1

TwoReflectorsOneOrientation ==
    /\ DetectorCalled
    /\ [ n \in 1..Len(reflectors) |-> reflectors[n].hkl ] = << <<1, 0, 0>>, <<0, 1, 0>> >>
    /\ ret.rotations.shape = <<1>>

FrontFacing == { n \in 1..Len(reflectors) : ret.hkl_z[<<1>>][n] > 0 }

\* C5 as stated: 2 lines when both reflectors are front-facing, 0 or 1
\* otherwise; exactly 1 zone axis, (0,0,1) up to sign, when both are visible.
C5_TwoLinesOneZoneAxis ==
    TwoReflectorsOneOrientation =>
        /\ Cardinality(FrontFacing) = 2 => Len(ret.lines.hkl) = 2
        /\ Cardinality(FrontFacing) < 2 => Len(ret.lines.hkl) \in {0, 1}
        /\ Cardinality(FrontFacing) = 2 =>
              /\ Len(ret.zone_axes.uvw) = 1
              /\ ret.zone_axes.uvw[1] \in { <<0, 0, 1>>, <<0, 0, -1>> }

\* C5 amended: as many lines as front-facing reflectors; when both are
\* visible, exactly 1 zone axis, (0,0,1) or (0,0,-1), unless the zone axis
\* lies exactly on the horizon (z = 0), and then no zone axis at all.
C5_TwoLinesOneZoneAxisOffHorizon ==
    TwoReflectorsOneOrientation =>
        /\ Len(ret.lines.hkl) = Cardinality(FrontFacing)
        /\ Cardinality(FrontFacing) = 2 =>
              LET z001 == VecMat(<<0, 0, 1>>,
                                 MatMul(phase.base,
                                        MatMul(ret.rotations.matrix[<<1>>],
                                               SampleToDetector(ret.detector))))[3]
              IN  IF z001 # 0
                  THEN /\ Len(ret.zone_axes.uvw) = 1
                       /\ ret.zone_axes.uvw[1]
                            = (IF z001 > 0 THEN <<0, 0, 1>> ELSE <<0, 0, -1>>)
                  ELSE Len(ret.zone_axes.uvw) = 0

\* C5 witness: both reflectors visible and one zone axis returned
C5_Witness ==
    /\ TwoReflectorsOneOrientation
    /\ Cardinality(FrontFacing) = 2
    /\ Len(ret.lines.hkl) = 2
    /\ Len(ret.zone_axes.uvw) = 1

\* ---------------------------------------------------------- plot properties

\* C9 as stated: with the reflectors calculated, an unrecognized mode or
\* projection, or an unrecognized backend of the spherical projection,
\* raises an invalid-option error before anything is drawn.
C9_UnknownOptionRaises ==
    ( /\ ret.op = "plot"
      /\ \A i \in 1..Len(reflectors) :
            ~IsNone(reflectors[i].theta) /\ ~IsNone(reflectors[i].structure_factor)
      /\ \/ ret.mode \notin {"lines", "bands"}
         \/ ret.projection \notin {"stereographic", "spherical"}
         \/ ret.projection = "spherical" /\ ret.backend \notin {"matplotlib", "pyvista"} )
    => (ret.status = "ValueError" /\ ret.drawn = <<>>)

\* ------------------------------------------------- zone-axis set properties

\* C11: reducing and deduplicating the zone-axis set that on_detector derived
\* once more returns the same set, in the same order.
C11_ReductionIdempotent ==
    DetectorCalled =>
        ReduceAndDeduplicate(ret.uvw_before_culling) = ret.uvw_before_culling

\* C11 witness: the derived set holds a triplet that came from a cross product
\* with a common factor, and this cross product is no element of the set
C11_Witness ==
    /\ DetectorCalled
    /\ \E i, j \in 1..Len(ret.lines.hkl) :
          LET c == Cross3(ret.lines.hkl[i], ret.lines.hkl[j])
          IN  /\ Gcd(Gcd(c[1], c[2]), c[3]) > 1
              /\ \E q \in 1..Len(ret.uvw_before_culling) :
                    ret.uvw_before_culling[q] = RoundIndices(c)
              /\ \A q \in 1..Len(ret.uvw_before_culling) :
                    ret.uvw_before_culling[q] # c

\* ------------------------------------------------ shared-state properties

\* C12: calls share no mutable state: the simulator's reflectors and phase
\* are at all times those of its construction, and every finished call,
\* whatever was begun or finished by the other caller meanwhile, has the
\* outcome of the same call run alone on the simulator as constructed (so a
\* repeated call has an equal outcome).
C12_NoSharedMutableState ==
    ret.op = "calls" =>
        /\ reflectors = ret.simulator.reflectors
        /\ phase = ret.simulator.phase
        /\ \A c \in Callers :
              ret.call[c].pc = "done" =>
                  ret.call[c].outcome
                    = CallOutcome(ret.call[c].arguments,
                                  ret.simulator.reflectors, ret.simulator.phase)

\* C12 witness: an on_detector call that culled a reflector and a
\* calculate_master_pattern call, run while the other was running, both done
C12_Witness ==
    /\ ret.op = "calls"
    /\ \E c, o \in Callers :
          /\ ret.call[c].pc = "done" /\ ret.call[o].pc = "done"
          /\ ret.call[c].overlapped /\ ret.call[o].overlapped
          /\ ret.call[c].outcome.op = "on_detector"
          /\ Len(ret.call[c].outcome.reflectors) < Len(reflectors)
          /\ ret.call[c].outcome.reflectors # <<>>
          /\ ret.call[o].outcome.op = "calculate_master_pattern"
          /\ ret.call[o].outcome.status = "ok"

\* --------------------------------------------------- h5ebsd reader properties

HasDataset(f, names) ==
    \E i \in 1..Len(f.datasets) : Lower(f.datasets[i][1]) \in names

\* C13 as stated: the constructor's check_file raises IOError when the top
\* group has no manufacturer or no version dataset, when no top group has
\* both EBSD/Data and EBSD/Header, and when the manufacturer is not supported.
C13_CheckFileRaisesIOError ==
    ret.op = "__init__" =>
        ( ( \/ ~HasDataset(file, {"manufacturer"})
            \/ ~HasDataset(file, {"version", "format version"})
            \/ ~\E i \in 1..Len(file.groups) :
                   file.groups[i].data /\ file.groups[i].header
            \/ \E i \in 1..Len(file.datasets) :
                   /\ Lower(file.datasets[i][1]) = "manufacturer"
                   /\ Lower(file.datasets[i][2]) \notin DOMAIN manufacturer_patterns )
          => ret.status = "IOError" )

\* C14 as stated: once read is over, on every way out of it, the file is
\* closed when lazy is False and still open when lazy is True.
C14_FileClosedAfterRead ==
    ret.op = "read" => (file.open = ret.lazy)

\* --------------------------------------------------- h5ebsd writer properties

RECURSIVE HasKind(_, _)
\* the dictionary, or one of its sub-dictionaries, has an entry of this kind
HasKind(dictionary, kind) ==
    \E i \in 1..Len(dictionary) :
        \/ dictionary[i].kind = kind
        \/ dictionary[i].kind = "dict" /\ HasKind(dictionary[i].items, kind)

RECURSIVE AllButObjects(_)
\* the group that holds every entry but those that cannot be indexed
AllButObjects(dictionary) ==
    IF dictionary = <<>> THEN <<>>
    ELSE LET e == Head(dictionary)
         IN  IF e.kind = "object" THEN AllButObjects(Tail(dictionary))
             ELSE << Entry(e.key, IF e.kind = "dict" THEN "group" ELSE "dataset",
                           AllButObjects(e.items)) >>
                  \o AllButObjects(Tail(dictionary))

\* C15 as stated: an entry whose value cannot be coerced is skipped with a
\* warning, and every other entry, before and after it, is written.
C15_OnlyOffendingEntrySkipped ==
    ( /\ ret.op = "_dict2hdf5group"
      /\ HasKind(ret.dictionary, "object")
      /\ ~HasKind(ret.dictionary, "floats") )
    => /\ ret.status = "ok"
       /\ ret.warned # <<>>
       /\ file.root = AllButObjects(ret.dictionary)

\* ------------------------------------------------ reduced mask properties

DetectorTransform(basis_change, ix) ==
    MatMul(basis_change,
           MatMul(ret.rotations.matrix[ix], SampleToDetector(ret.detector)))

\* indices, coordinates and mask of a sub-bundle describe the same items in
\* the same order: the items of all, in order, that have z > 0 somewhere
SameSurvivors(indices, coordinates, mask, all, z, basis_change) ==
    LET nav == NavIndices(ret.rotations.shape)
        N == Len(indices)
    IN  /\ indices = BoolIndex(all, [ n \in 1..Len(all) |-> \E ix \in nav : z[ix][n] > 0 ])
        /\ DOMAIN coordinates = nav
        /\ DOMAIN mask = nav
        /\ \A ix \in nav :
              /\ DOMAIN coordinates[ix] = 1..N
              /\ DOMAIN mask[ix] = 1..N
              /\ \A n \in 1..N :
                    /\ coordinates[ix][n]
                         = VecMat(indices[n], DetectorTransform(basis_change, ix))
                    /\ mask[ix][n] = (coordinates[ix][n][3] > 0)
        /\ \A n \in 1..N : \E ix \in nav : mask[ix][n]

\* C17: in the returned bundle, for lines and zone axes alike, the indices,
\* the detector coordinates and the visibility mask describe the same N items
\* in the same order; the items are exactly those front-facing (z > 0) in at
\* least one orientation, so every mask column has a True.
C17_BundleDescribesSurvivors ==
    DetectorCalled =>
        /\ SameSurvivors(ret.lines.hkl, ret.lines.hkl_detector, ret.lines.in_pattern,
                         [ n \in 1..Len(reflectors) |-> reflectors[n].hkl ],
                         ret.hkl_z, Transpose(phase.recbase))
        /\ SameSurvivors(ret.zone_axes.uvw, ret.zone_axes.uvw_detector,
                         ret.zone_axes.in_pattern, ret.uvw_before_culling,
                         ret.uvw_z, phase.base)

\* C17 witness: two orientations, a reflector and a zone axis culled, two
\* lines and a zone axis kept, one kept line not visible in one orientation
C17_Witness ==
    /\ DetectorCalled
    /\ ret.rotations.shape = <<2>>
    /\ Len(ret.lines.hkl) >= 2
    /\ Len(ret.lines.hkl) < Len(reflectors)
    /\ Len(ret.zone_axes.uvw) >= 1
    /\ Len(ret.zone_axes.uvw) < Len(ret.uvw_before_culling)
    /\ \E n \in 1..Len(ret.lines.hkl) :
          ret.lines.in_pattern[<<1>>][n] /\ ~ret.lines.in_pattern[<<2>>][n]

\* ------------------------------------------ derived zone-axis set properties

\* the reflectors that are front-facing in at least one orientation
GloballyVisible ==
    { n \in 1..Len(reflectors) : \E ix \in DOMAIN ret.hkl_z : ret.hkl_z[ix][n] > 0 }

\* u is the smallest integer triplet along c, in the sense of c
ReducedOf(u, c) ==
    /\ Cross3(u, c) = <<0, 0, 0>>
    /\ Dot3(u, c) > 0
    /\ Gcd(Gcd(u[1], u[2]), u[3]) = 1

\* C18: the zone-axis set derived before culling is exactly the set of the
\* reduced non-zero cross products of the ordered pairs of globally visible
\* reflectors; it has no zero vector, only reduced triplets, no triplet twice.
C18_ZoneAxisSetIsReducedCrossProducts ==
    DetectorCalled =>
        LET uvw == ret.uvw_before_culling
            products == { Cross3(reflectors[i].hkl, reflectors[j].hkl) :
                            i \in GloballyVisible, j \in GloballyVisible }
                        \ { <<0, 0, 0>> }
        IN  /\ \A q \in 1..Len(uvw) : \E c \in products : ReducedOf(uvw[q], c)
            /\ \A c \in products : \E q \in 1..Len(uvw) : ReducedOf(uvw[q], c)
            /\ \A q \in 1..Len(uvw) : uvw[q] # <<0, 0, 0>>
            /\ \A q \in 1..Len(uvw) : Gcd(Gcd(uvw[q][1], uvw[q][2]), uvw[q][3]) = 1
            /\ \A p, q \in 1..Len(uvw) : p # q => uvw[p] # uvw[q]

\* C18 witness: a reflector culled, and among the visible ones a pair whose
\* cross product has a common factor; zone axes derived
C18_Witness ==
    /\ DetectorCalled
    /\ GloballyVisible # 1..Len(reflectors)
    /\ ret.uvw_before_culling # <<>>
    /\ \E i, j \in GloballyVisible :
          LET c == Cross3(reflectors[i].hkl, reflectors[j].hkl)
          IN  Gcd(Gcd(c[1], c[2]), c[3]) > 1

\* -------------------------------------------------- pixel class properties

\* dot product of the pixel (r, c) of a size x size grid with reflector k
PairDot(k, size, pole, r, c) ==
    DotProduct(XY2Vector(pole, GridX(size, (r - 1) * size + c),
                         GridY(size, (r - 1) * size + c)),
               Cartesian(reflectors[k], phase))

\* the class of a pair by its dot product n / (d sqrt(g2)) and sin(theta):
\* exact zone-line |dot| <= 1e-7; inside band 0 <= dot <= sin(theta), i.e.
\* angle in [90deg - theta, 90deg], and not zone-line; outside otherwise
PairClass(dp, theta) ==
    IF Abs(dp.n) <= ISqrt(dp.d * dp.d * dp.g2) \div ZoneTolInv THEN "zone"
    ELSE IF dp.n >= 0 /\ (dp.n * theta[2]) * (dp.n * theta[2])
                           <= theta[1] * theta[1] * dp.d * dp.d * dp.g2
    THEN "band"
    ELSE "outside"

\* C19: every (grid point, reflector) pair is in one of the three classes,
\* and the value of a grid point is half the summed intensity of its exact
\* zone-line reflectors plus the summed intensity of its inside-band
\* reflectors; nothing else, and nothing from beyond 90 degrees, is added.
C19_ValueIsSumOverClasses ==
    MasterOk =>
        LET size == 2 * ret.half_size + 1
            intensity == Val(ret.intensity)
        IN  \A i \in 1..Len(Slices(ret)), r \in 1..size, c \in 1..size :
                Slices(ret)[i][r][c]
                  = SeqSum([ k \in 1..Len(reflectors) |->
                      LET class == PairClass(
                              PairDot(k, size, SlicePole(ret.hemisphere, i), r, c),
                              Val(reflectors[k].theta))
                      IN  IF class = "zone" THEN intensity[k]
                          ELSE IF class = "band" THEN 2 * intensity[k]
                          ELSE 0 ])

\* C19 witness: a grid point with a zone-line reflector and an inside-band
\* reflector, and another whose reflector is beyond 90 degrees by less than
\* theta and adds nothing
C19_Witness ==
    /\ MasterOk
    /\ LET size == 2 * ret.half_size + 1
       IN  /\ \E r \in 1..size, c \in 1..size, k, l \in 1..Len(reflectors) :
                 LET pole == SlicePole(ret.hemisphere, 1)
                 IN  /\ PairClass(PairDot(k, size, pole, r, c),
                                  Val(reflectors[k].theta)) = "zone"
                     /\ PairClass(PairDot(l, size, pole, r, c),
                                  Val(reflectors[l].theta)) = "band"
           /\ \E r \in 1..size, c \in 1..size :
                 /\ Slices(ret)[1][r][c] = 0
                 /\ \E k \in 1..Len(reflectors) :
                       LET dp == PairDot(k, size, SlicePole(ret.hemisphere, 1), r, c)
                       IN  /\ dp.n < 0
                           /\ PairClass([ dp EXCEPT !.n = -dp.n ],
                                        Val(reflectors[k].theta)) = "band"

\* ---------------------------------------------- transform chain properties

\* the row vector v taken through basis change, orientation ix and tilt
\* correction, one after the other
ThroughChain(v, basis_change, ix) ==
    VecMat(VecMat(VecMat(v, basis_change), ret.rotations.matrix[ix]),
           SampleToDetector(ret.detector))

\* C20: the detector-frame vector of every reflector, for every orientation,
\* is index . (basis change . orientation . tilt correction) on row vectors,
\* the basis change being the transposed reciprocal basis; the zone axes go
\* through the same chain with the direct basis; one transform per
\* navigation index.
C20_ChainOrder ==
    DetectorCalled =>
        LET nav == NavIndices(ret.rotations.shape)
        IN  /\ DOMAIN ret.hkl_z = nav /\ DOMAIN ret.uvw_z = nav
            /\ DOMAIN ret.lines.hkl_detector = nav
            /\ DOMAIN ret.zone_axes.uvw_detector = nav
            /\ \A ix \in nav :
                  /\ \A n \in 1..Len(reflectors) :
                        ret.hkl_z[ix][n]
                          = ThroughChain(reflectors[n].hkl, Transpose(phase.recbase), ix)[3]
                  /\ \A n \in 1..Len(ret.lines.hkl) :
                        ret.lines.hkl_detector[ix][n]
                          = ThroughChain(ret.lines.hkl[n], Transpose(phase.recbase), ix)
                  /\ \A n \in 1..Len(ret.uvw_before_culling) :
                        ret.uvw_z[ix][n]
                          = ThroughChain(ret.uvw_before_culling[n], phase.base, ix)[3]
                  /\ \A n \in 1..Len(ret.zone_axes.uvw) :
                        ret.zone_axes.uvw_detector[ix][n]
                          = ThroughChain(ret.zone_axes.uvw[n], phase.base, ix)

\* C20 witness: a line and a zone axis whose coordinates differ from those of
\* the chain taken in the opposite order, and whose two basis changes differ
C20_Witness ==
    /\ DetectorCalled
    /\ phase.base # Transpose(phase.recbase)
    /\ \E ix \in NavIndices(ret.rotations.shape) :
          /\ \E n \in 1..Len(ret.lines.hkl) :
                ret.lines.hkl_detector[ix][n]
                  # VecMat(VecMat(VecMat(ret.lines.hkl[n], SampleToDetector(ret.detector)),
                                  ret.rotations.matrix[ix]),
                           Transpose(phase.recbase))
          /\ \E n \in 1..Len(ret.zone_axes.uvw) :
                ret.zone_axes.uvw_detector[ix][n]
                  # VecMat(VecMat(VecMat(ret.zone_axes.uvw[n], SampleToDetector(ret.detector)),
                                  ret.rotations.matrix[ix]),
                           phase.base)

\* ---------------------------------------------- desired scan group properties

DesiredCalled == ret.op = "get_desired_scan_groups"

\* the names requested, in the order requested
Requested == IF ret.group_names.kind = "str" THEN << ret.group_names.name >>
             ELSE ret.group_names.names

\* a top group of the file has this name
Available(name) == \E i \in 1..Len(file.groups) : file.groups[i].name = name

\* C21: without group_names the first scan group alone is returned; else one
\* group per requested name that is available, in the order requested, each
\* with the name requested.  A name that is not available raises IOError when
\* it is the only name requested and is warned about and left out when more
\* than one name was requested.
C21_DesiredScanGroups ==
    DesiredCalled =>
        IF ret.group_names.kind = "none"
        THEN /\ ret.status = "ok"
             /\ ret.scan_groups = << file.groups[1] >>
             /\ ret.warned = <<>>
        ELSE IF Len(Requested) = 1 /\ ~Available(Requested[1])
        THEN ret.status = "IOError"
        ELSE LET IsAvailable(name) == Available(name)
                 IsMissing(name) == ~Available(name)
                 found == SelectSeq(Requested, IsAvailable)
             IN  /\ ret.status = "ok"
                 /\ Len(ret.scan_groups) = Len(found)
                 /\ \A i \in 1..Len(found) :
                       /\ ret.scan_groups[i].name = found[i]
                       /\ \E j \in 1..Len(file.groups) : file.groups[j] = ret.scan_groups[i]
                 /\ ret.warned = SelectSeq(Requested, IsMissing)

\* C21 witness: two names requested, none of them available: no error, an
\* empty result and two warnings
C21_Witness ==
    /\ DesiredCalled
    /\ ret.group_names.kind = "list"
    /\ Len(Requested) = 2
    /\ Requested[1] # Requested[2]
    /\ ret.status = "ok"
    /\ ret.scan_groups = <<>>
    /\ Len(ret.warned) = 2

\* ------------------------------------------------ negated zone-axis properties

Negated(u) == << -u[1], -u[2], -u[3] >>

\* C22: the zone-axis set derived before culling has -u whenever it has u;
\* in no single orientation are a zone axis and its negation both visible,
\* before or after culling.  (That both can be returned for a batch of
\* several orientations is the state of the witness.)
C22_NegationClosedNeverBothVisible ==
    DetectorCalled =>
        LET uvw == ret.uvw_before_culling
            kept == ret.zone_axes.uvw
        IN  /\ \A p \in 1..Len(uvw) : \E q \in 1..Len(uvw) : uvw[q] = Negated(uvw[p])
            /\ \A ix \in DOMAIN ret.uvw_is_upper : \A p, q \in 1..Len(uvw) :
                  uvw[q] = Negated(uvw[p])
                    => ~(ret.uvw_is_upper[ix][p] /\ ret.uvw_is_upper[ix][q])
            /\ \A ix \in DOMAIN ret.zone_axes.in_pattern : \A p, q \in 1..Len(kept) :
                  kept[q] = Negated(kept[p])
                    => ~(ret.zone_axes.in_pattern[ix][p] /\ ret.zone_axes.in_pattern[ix][q])

\* C22 witness: a batch of two orientations for which a zone axis and its
\* negation are both returned, each visible in one of the orientations
C22_Witness ==
    /\ DetectorCalled
    /\ ret.rotations.shape = <<2>>
    /\ \E p, q \in 1..Len(ret.zone_axes.uvw) :
          /\ ret.zone_axes.uvw[q] = Negated(ret.zone_axes.uvw[p])
          /\ ret.zone_axes.in_pattern[<<1>>][p] /\ ~ret.zone_axes.in_pattern[<<1>>][q]
          /\ ret.zone_axes.in_pattern[<<2>>][q] /\ ~ret.zone_axes.in_pattern[<<2>>][p]

====
